---- MODULE Spec2Model ----
(***************************************************************************)
(* Model of the AdventureWorks product API: the pydantic validation of    *)
(* ProductCreate / ProductRead (ProductBase) and ProductUpdate in          *)
(* src/api/models/product.py and the request handlers of                   *)
(* src/api/routes/products.py over the SalesLT.Product table.              *)
(*                                                                         *)
(* Values are tagged so that an absent field (Unset), an explicit None     *)
(* (Null) and a supplied value (Val(x)) are distinct and comparable.       *)
(* Decimals and datetimes are integers (money units, instants).            *)
(* The fields size, product_category_id, product_model_id, thumbnail_photo *)
(* and thumbnail_photo_file_name take part in no cross-field rule and no   *)
(* handler decision; they are not represented.  product_id is the primary  *)
(* key generated by the storage engine at insert.                          *)
(***************************************************************************)
EXTENDS Integers, Sequences, FiniteSets, TLC

VARIABLES storage, nextId, clock, request, response, before, inflight

vars == <<storage, nextId, clock, request, response, before, inflight>>

-----------------------------------------------------------------------------
(* Bounds of the exploration *)

MaxCalls == 2        \* requests handled in one behaviour
MaxProductId == 2    \* identifiers a request may name: 1..MaxProductId
MaxMoney == 2        \* money amounts supplied by a client: 0..MaxMoney
MaxDate == 2         \* instants supplied by a client: 1..MaxDate
MaxSupplied == 2     \* fields one update body supplies (SpecUpdate)
MaxAltered == 2      \* fields in which a create body departs from the example

-----------------------------------------------------------------------------
(* Values *)

Unset == [unset |-> TRUE]
Null == [null |-> TRUE]
Val(x) == [v |-> x]

IsVal(t) == t # Unset /\ t # Null

\* Field declaration order of ProductBase and of ProductUpdate.
FieldOrder ==
    << "name", "product_number", "color", "weight", "standard_cost",
       "list_price", "sell_start_date", "sell_end_date",
       "discontinued_date", "rowguid" >>

PayloadFields == { FieldOrder[i] : i \in 1..Len(FieldOrder) }

\* Fields of ProductBase without a default.
RequiredFields ==
    { "name", "product_number", "standard_cost", "list_price",
      "sell_start_date", "rowguid" }

\* Columns of SalesLT.Product declared nullable=False (besides the key).
NotNullColumns ==
    { "name", "product_number", "standard_cost", "list_price",
      "sell_start_date", "rowguid", "modified_date" }

NameMaxLength == 100
NumberMaxLength == 50
ColorMaxLength == 30

GoodGuid == "123e4567-e89b-12d3-a456-426614174000"
OtherGuid == "00000000-0000-0000-0000-000000000001"
BadGuid == "not-a-uuid"
LongNumber == "BK-0123456789-0123456789-0123456789-0123456789-01234"

\* uuid.UUID(v) raises ValueError unless v is 32 hexadecimal digits once
\* hyphens, braces and the urn prefix are removed.
ParsesAsUUID(s) == s \in { GoodGuid, OtherGuid }

-----------------------------------------------------------------------------
(* Field constraints: Field(min_length=, max_length=, gt=) *)

StrFieldOk(s, minLen, maxLen) == Len(s) >= minLen /\ Len(s) <= maxLen

FieldConstraintOk(f, x) ==
    CASE f = "name" -> StrFieldOk(x, 1, NameMaxLength)
      [] f = "product_number" -> StrFieldOk(x, 1, NumberMaxLength)
      [] f = "color" -> StrFieldOk(x, 1, ColorMaxLength)
      [] f = "weight" -> x > 0
      [] f = "standard_cost" -> x > 0
      [] f = "list_price" -> x > 0
      [] OTHER -> TRUE

-----------------------------------------------------------------------------
(* Custom validators.  `values` holds the fields validated so far; a       *)
(* validator either raises or returns the value the field takes.           *)

Get(values, f) == IF f \in DOMAIN values THEN values[f] ELSE Null

Raise == [raised |-> TRUE, value |-> Null]
Return(t) == [raised |-> FALSE, value |-> t]

\* The comparison of ProductUpdate.validate_list_price used in ProductBase.
ProductBase_validate_list_price_lt(v, values) ==
    LET standard_cost == Get(values, "standard_cost")
    IN  IF standard_cost # Null /\ v.v < standard_cost.v
        THEN Raise
        ELSE Return(Null)

\* ProductBase.validate_list_price: raises when v <= standard_cost; the
\* function has no return statement, so the field takes None otherwise.
ProductBase_validate_list_price(v, values) ==
    LET standard_cost == Get(values, "standard_cost")
    IN  IF standard_cost # Null /\ v.v <= standard_cost.v
        THEN Raise
        ELSE Return(Null)

\* The date check with its comparison turned round.
ProductBase_validate_sell_end_date_gt(v, values) ==
    LET start == Get(values, "sell_start_date")
    IN  IF v # Null /\ start # Null /\ v.v > start.v
        THEN Raise
        ELSE Return(v)

ProductBase_validate_sell_end_date(v, values) ==
    LET start == Get(values, "sell_start_date")
    IN  IF v # Null /\ start # Null /\ v.v < start.v
        THEN Raise
        ELSE Return(v)

ProductBase_validate_discontinued_date(v, values) ==
    LET start == Get(values, "sell_start_date")
    IN  IF v # Null /\ start # Null /\ v.v < start.v
        THEN Raise
        ELSE Return(v)

ProductBase_validate_rowguid(v, values) ==
    IF ParsesAsUUID(v.v) THEN Return(v) ELSE Raise

ProductUpdate_validate_list_price(v, values) ==
    IF v = Null
    THEN Return(v)
    ELSE LET standard_cost == Get(values, "standard_cost")
         IN  IF standard_cost # Null /\ v.v < standard_cost.v
             THEN Raise
             ELSE Return(v)

ProductUpdate_validate_sell_end_date(v, values) ==
    IF v = Null
    THEN Return(v)
    ELSE LET start == Get(values, "sell_start_date")
         IN  IF start # Null /\ v.v < start.v THEN Raise ELSE Return(v)

ProductUpdate_validate_discontinued_date(v, values) ==
    IF v = Null
    THEN Return(v)
    ELSE LET start == Get(values, "sell_start_date")
         IN  IF start # Null /\ v.v < start.v THEN Raise ELSE Return(v)

\* A rowguid validator that accepts any string.
ProductUpdate_validate_rowguid_any(v) == Return(v)

ProductUpdate_validate_rowguid(v) ==
    IF v = Null
    THEN Return(v)
    ELSE IF ParsesAsUUID(v.v) THEN Return(v) ELSE Raise

-----------------------------------------------------------------------------
(* Model validation: fields are validated in declaration order, a failed   *)
(* field is left out of `values`, and every error is collected.            *)

NoValues == [f \in {} |-> Null]

Put(acc, f, t) == [acc EXCEPT !.values = (f :> t) @@ @]

\* Fail-fast collection: only the first error is kept.
Err_first_only(acc, f, kind) ==
    IF acc.errors = <<>>
    THEN [acc EXCEPT !.errors = Append(@, [loc |-> f, type |-> kind])]
    ELSE acc

Err(acc, f, kind) ==
    [acc EXCEPT !.errors = Append(@, [loc |-> f, type |-> kind])]

ProductBase_validator(f, v, values) ==
    CASE f = "list_price" -> ProductBase_validate_list_price(v, values)
      [] f = "sell_end_date" -> ProductBase_validate_sell_end_date(v, values)
      [] f = "discontinued_date" ->
             ProductBase_validate_discontinued_date(v, values)
      [] f = "rowguid" -> ProductBase_validate_rowguid(v, values)
      [] OTHER -> Return(v)

ProductUpdate_validator(f, v, values) ==
    CASE f = "list_price" -> ProductUpdate_validate_list_price(v, values)
      [] f = "sell_end_date" -> ProductUpdate_validate_sell_end_date(v, values)
      [] f = "discontinued_date" ->
             ProductUpdate_validate_discontinued_date(v, values)
      [] f = "rowguid" -> ProductUpdate_validate_rowguid(v)
      [] OTHER -> Return(v)

\* One field of ProductBase: required fields must be present and not None,
\* optional ones default to None.
ProductBase_field(acc, f, raw) ==
    IF raw = Unset
    THEN IF f \in RequiredFields THEN Err(acc, f, "missing")
                                 ELSE Put(acc, f, Null)
    ELSE IF raw = Null
    THEN IF f \in RequiredFields THEN Err(acc, f, "none_not_allowed")
                                 ELSE Put(acc, f, Null)
    ELSE IF ~FieldConstraintOk(f, raw.v)
    THEN Err(acc, f, "constraint")
    ELSE LET r == ProductBase_validator(f, raw, acc.values)
         IN  IF r.raised THEN Err(acc, f, "value_error")
                         ELSE Put(acc, f, r.value)

\* One field of ProductUpdate: every field is Optional with default None.
ProductUpdate_field(acc, f, raw) ==
    IF raw = Unset \/ raw = Null
    THEN Put(acc, f, Null)
    ELSE IF ~FieldConstraintOk(f, raw.v)
    THEN Err(acc, f, "constraint")
    ELSE LET r == ProductUpdate_validator(f, raw, acc.values)
         IN  IF r.raised THEN Err(acc, f, "value_error")
                         ELSE Put(acc, f, r.value)

RECURSIVE ProductBase_from(_, _, _)
ProductBase_from(payload, i, acc) ==
    IF i > Len(FieldOrder)
    THEN acc
    ELSE ProductBase_from(payload, i + 1,
             ProductBase_field(acc, FieldOrder[i], payload[FieldOrder[i]]))

RECURSIVE ProductUpdate_from(_, _, _)
ProductUpdate_from(payload, i, acc) ==
    IF i > Len(FieldOrder)
    THEN acc
    ELSE ProductUpdate_from(payload, i + 1,
             ProductUpdate_field(acc, FieldOrder[i], payload[FieldOrder[i]]))

\* ProductCreate(**body): the validated model, or the collected errors.
ProductCreate(payload) ==
    ProductBase_from(payload, 1, [values |-> NoValues, errors |-> <<>>])

\* ProductUpdate(**body); fields_set are the fields the body supplies.
ProductUpdate(payload) ==
    ProductUpdate_from(payload, 1, [values |-> NoValues, errors |-> <<>>])

\* ProductRead.model_validate(row): the ProductBase validation applied to
\* the attributes of a stored row, plus product_id and modified_date.
ProductRead(product_id, row) ==
    LET m == ProductBase_from([f \in PayloadFields |-> row[f]], 1,
                              [values |-> NoValues, errors |-> <<>>])
    IN  [values |-> ("product_id" :> Val(product_id))
                    @@ ("modified_date" :> row.modified_date) @@ m.values,
         errors |-> m.errors]

\* Product.model_validate(product): builds the table row from a validated
\* ProductCreate; a None in a field the table model declares without
\* Optional is a validation error.  modified_date takes its default_factory.
Product_model_validate(values, now) ==
    IF \E f \in RequiredFields : values[f] = Null
    THEN Raise
    ELSE Return([f \in PayloadFields \cup {"modified_date"} |->
                    IF f = "modified_date" THEN Val(now) ELSE values[f]])

\* product.model_dump(exclude_unset=True)
model_dump_exclude_unset(payload, values) ==
    [f \in {g \in PayloadFields : payload[g] # Unset} |-> values[f]]

-----------------------------------------------------------------------------
(* Storage: the SalesLT.Product table as a function product_id -> row.     *)

\* select(Product).where(Product.product_number == number).first()
ExistsNumber(st, number) ==
    \E i \in DOMAIN st : st[i].product_number = number

\* A commit that accepts NULL in every column.
CommitAccepts_nullable(row) == TRUE

\* session.commit() of an inserted or modified row: the engine rejects a
\* NULL in a column declared nullable=False.
CommitAccepts(row) == \A f \in NotNullColumns : row[f] # Null

(* Outcomes of a handler *)

Outcome(status, id, number, errors, body) ==
    [status |-> status, id |-> id, product_number |-> number,
     errors |-> errors, body |-> body, items |-> {}]

\* A not-found outcome that does not carry the identifier.
NotFound_anonymous(product_id) ==
    Outcome("not_found", Null, Null, <<>>, Null)

NotFound(product_id) ==
    Outcome("not_found", Val(product_id), Null, <<>>, Null)

Conflict(number) == Outcome("conflict", Null, number, <<>>, Null)

\* The body did not validate: the handler is not entered.
RequestInvalid(errors) ==
    Outcome("validation_error", Null, Null, errors, Null)

\* An exception the handler does not catch.
Unhandled(errors) == Outcome("internal_error", Null, Null, errors, Null)

\* return ProductRead.model_validate(db_product)
ReadOutcome(status, product_id, row) ==
    LET read == ProductRead(product_id, row)
    IN  IF read.errors # <<>>
        THEN Unhandled(read.errors)
        ELSE Outcome(status, Val(product_id), Null, <<>>, Val(read.values))

-----------------------------------------------------------------------------
(* Handlers, as functions of the table, the request and the current time.  *)

CreateResult(st, nid, payload, now) ==
    LET product == ProductCreate(payload)
    IN  IF product.errors # <<>>
        THEN [storage |-> st, nextId |-> nid,
              response |-> RequestInvalid(product.errors)]
        ELSE
        LET db_product == Product_model_validate(product.values, now)
        IN  IF db_product.raised
            THEN [storage |-> st, nextId |-> nid,
                  response |-> Unhandled(<<[loc |-> "Product",
                                            type |-> "value_error"]>>)]
            ELSE IF ExistsNumber(st, product.values["product_number"])
            THEN [storage |-> st, nextId |-> nid,
                  response |-> Conflict(product.values["product_number"])]
            ELSE IF ~CommitAccepts(db_product.value)
            THEN [storage |-> st, nextId |-> nid,
                  response |-> Unhandled(<<[loc |-> "commit",
                                            type |-> "integrity_error"]>>)]
            ELSE [storage |-> (nid :> db_product.value) @@ st,
                  nextId |-> nid + 1,
                  response |-> ReadOutcome("created", nid, db_product.value)]

\* The uniqueness test with its comparison to the row's own number inverted.
NumberTaken_inverted(st, db_product, number) ==
    /\ number # Null
    /\ number = db_product.product_number
    /\ ExistsNumber(st, number)

\* The uniqueness test without the exception for the row's own number.
NumberTaken_any_row(st, db_product, number) ==
    /\ number # Null
    /\ ExistsNumber(st, number)

\* update_product's test "the body renames the row to a number in use".
NumberTaken(st, db_product, number) ==
    /\ number # Null
    /\ number # db_product.product_number
    /\ ExistsNumber(st, number)

UpdateResult(st, product_id, payload, now) ==
    LET product == ProductUpdate(payload)
    IN  IF product.errors # <<>>
        THEN [storage |-> st, response |-> RequestInvalid(product.errors)]
        ELSE IF product_id \notin DOMAIN st
        THEN [storage |-> st, response |-> NotFound(product_id)]
        ELSE
        LET db_product == st[product_id]
            number == product.values["product_number"]
        IN  IF NumberTaken(st, db_product, number)
            THEN [storage |-> st, response |-> Conflict(number)]
            ELSE
            LET product_data ==
                    model_dump_exclude_unset(payload, product.values)
                updated ==
                    [f \in DOMAIN db_product |->
                        IF f = "modified_date" THEN Val(now)
                        ELSE IF f \in DOMAIN product_data
                        THEN product_data[f]
                        ELSE db_product[f]]
            IN  IF ~CommitAccepts(updated)
                THEN [storage |-> st,
                      response |-> Unhandled(<<[loc |-> "commit",
                                                type |-> "integrity_error"]>>)]
                ELSE [storage |-> [st EXCEPT ![product_id] = updated],
                      response |-> ReadOutcome("ok", product_id, updated)]

\* A delete that confirms without removing the row.
DeleteResult_keeps_row(st, product_id) ==
    IF product_id \notin DOMAIN st
    THEN [storage |-> st, response |-> NotFound(product_id)]
    ELSE [storage |-> st,
          response |-> Outcome("deleted", Val(product_id), Null, <<>>, Null)]

DeleteResult(st, product_id) ==
    IF product_id \notin DOMAIN st
    THEN [storage |-> st, response |-> NotFound(product_id)]
    ELSE [storage |-> [i \in DOMAIN st \ {product_id} |-> st[i]],
          response |-> Outcome("deleted", Val(product_id), Null, <<>>, Null)]

GetResult(st, product_id) ==
    IF product_id \notin DOMAIN st
    THEN NotFound(product_id)
    ELSE ReadOutcome("ok", product_id, st[product_id])

ListResult(st) ==
    IF \E i \in DOMAIN st : ProductRead(i, st[i]).errors # <<>>
    THEN Unhandled(<<[loc |-> "ProductRead", type |-> "value_error"]>>)
    ELSE [Outcome("ok", Null, Null, <<>>, Null) EXCEPT
            !.items = { ProductRead(i, st[i]).values : i \in DOMAIN st }]

-----------------------------------------------------------------------------
(* Inputs *)

Ids == 1..MaxProductId

Money == { Val(n) : n \in 0..MaxMoney }
Dates == { Val(d) : d \in 1..MaxDate }

\* What a client may send for a field (besides leaving it out).
FieldInputs(f) ==
    CASE f = "name" -> { Val("Bike"), Val(""), Null }
      [] f = "product_number" ->
             { Val("BK-1"), Val("BK-2"), Val("BK-3"), Val(""),
               Val(LongNumber), Null }
      [] f = "color" -> { Val("Red"), Val(""), Null }
      [] f = "weight" -> { Val(0), Val(1), Null }
      [] f = "standard_cost" -> Money \cup { Null }
      [] f = "list_price" -> Money \cup { Null }
      [] f = "sell_start_date" -> Dates \cup { Null }
      [] f = "sell_end_date" -> Dates \cup { Null }
      [] f = "discontinued_date" -> Dates \cup { Null }
      [] f = "rowguid" -> { Val(GoodGuid), Val(BadGuid), Null }

EmptyPayload == [f \in PayloadFields |-> Unset]

\* The example body of ProductCreate's docstring.
ExampleCreate ==
    [EmptyPayload EXCEPT !["name"] = Val("Bike"),
                         !["product_number"] = Val("BK-1"),
                         !["standard_cost"] = Val(1),
                         !["list_price"] = Val(2),
                         !["sell_start_date"] = Val(2),
                         !["rowguid"] = Val(GoodGuid)]

\* The payloads that differ from `base` in the fields of S only.
RECURSIVE Variants(_, _)
Variants(base, S) ==
    IF S = {}
    THEN { base }
    ELSE LET f == CHOOSE g \in S : TRUE
         IN  { [p EXCEPT ![f] = t] :
                 p \in Variants(base, S \ {f}),
                 t \in FieldInputs(f) \cup { Unset } }

VariantsUpTo(base, k) ==
    UNION { Variants(base, S) :
              S \in { T \in SUBSET PayloadFields : Cardinality(T) <= k } }

UpdatePayloads == VariantsUpTo(EmptyPayload, MaxSupplied)
CreatePayloads == VariantsUpTo(ExampleCreate, MaxAltered)

\* The inputs of the multi-call specification: bodies that supply, or depart
\* from the example in, a single field.
SingleFieldVariants(base) ==
    UNION { Variants(base, {f}) : f \in PayloadFields }

SeqUpdatePayloads == SingleFieldVariants(EmptyPayload)
SeqCreatePayloads == SingleFieldVariants(ExampleCreate)

(* Rows present in the table before the first request: the service runs   *)
(* against an existing SalesLT.Product table, whose rows satisfy the       *)
(* invariants I1-I5 of the data model.                                     *)

SeedRow(number, cost, price, start, end, disc) ==
    [name |-> Val("Bike"), product_number |-> Val(number), color |-> Null,
     weight |-> Null, standard_cost |-> Val(cost), list_price |-> Val(price),
     sell_start_date |-> Val(start), sell_end_date |-> end,
     discontinued_date |-> disc, rowguid |-> Val(GoodGuid),
     modified_date |-> Val(0)]

NoRows == [i \in {} |-> Null]

SeedStores ==
    { NoRows,
      1 :> SeedRow("BK-1", 2, 3, 2, Null, Null),
      (1 :> SeedRow("BK-1", 2, 3, 2, Null, Null))
        @@ (2 :> SeedRow("BK-2", 1, 2, 1, Val(1), Val(1))) }

-----------------------------------------------------------------------------
(* State machine *)

NoRequest == [op |-> "none", id |-> Null, payload |-> EmptyPayload]
NoResponse == Outcome("none", Null, Null, <<>>, Null)

\* Two create requests handled concurrently, each by its own worker thread
\* and session: where each stands in create_product and what it holds.
Requests == {1, 2}

IdleRequest ==
    [pc |-> "idle", payload |-> EmptyPayload, db_product |-> Null,
     response |-> NoResponse]

NoInflight == [r \in Requests |-> IdleRequest]

Init ==
    /\ storage \in SeedStores
    /\ nextId = Cardinality(DOMAIN storage) + 1
    /\ clock = 0
    /\ request = NoRequest
    /\ response = NoResponse
    /\ before = storage
    /\ inflight = NoInflight

\* datetime.now(timezone.utc) during the request being handled
Now == clock + 1

create_product(payload) ==
    LET r == CreateResult(storage, nextId, payload, Now)
    IN  /\ clock < MaxCalls
        /\ clock' = Now
        /\ request' = [op |-> "create", id |-> Null, payload |-> payload]
        /\ before' = storage
        /\ storage' = r.storage
        /\ nextId' = r.nextId
        /\ response' = r.response
        /\ UNCHANGED inflight

update_product(product_id, payload) ==
    LET r == UpdateResult(storage, product_id, payload, Now)
    IN  /\ clock < MaxCalls
        /\ clock' = Now
        /\ request' = [op |-> "update", id |-> Val(product_id),
                       payload |-> payload]
        /\ before' = storage
        /\ storage' = r.storage
        /\ response' = r.response
        /\ UNCHANGED <<nextId, inflight>>

delete_product(product_id) ==
    LET r == DeleteResult(storage, product_id)
    IN  /\ clock < MaxCalls
        /\ clock' = Now
        /\ request' = [op |-> "delete", id |-> Val(product_id),
                       payload |-> EmptyPayload]
        /\ before' = storage
        /\ storage' = r.storage
        /\ response' = r.response
        /\ UNCHANGED <<nextId, inflight>>

get_product(product_id) ==
    /\ clock < MaxCalls
    /\ clock' = Now
    /\ request' = [op |-> "get", id |-> Val(product_id),
                   payload |-> EmptyPayload]
    /\ before' = storage
    /\ response' = GetResult(storage, product_id)
    /\ UNCHANGED <<storage, nextId, inflight>>

list_products ==
    /\ clock < MaxCalls
    /\ clock' = Now
    /\ request' = [op |-> "list", id |-> Null, payload |-> EmptyPayload]
    /\ before' = storage
    /\ response' = ListResult(storage)
    /\ UNCHANGED <<storage, nextId, inflight>>

Next ==
    \/ \E payload \in SeqCreatePayloads : create_product(payload)
    \/ \E product_id \in Ids, payload \in SeqUpdatePayloads :
          update_product(product_id, payload)
    \/ \E product_id \in Ids : delete_product(product_id)
    \/ \E product_id \in Ids : get_product(product_id)
    \/ list_products

Spec == Init /\ [][Next]_vars

-----------------------------------------------------------------------------
(* create_product as the storage sees it: the uniqueness query and the     *)
(* commit are separate steps, and nothing orders the steps of two          *)
(* requests.  SpecRace keeps the interleavings in which neither request    *)
(* commits before the other has run its uniqueness query.                  *)

Phase(pc) ==
    CASE pc = "idle" -> 0
      [] pc = "validated" -> 1
      [] pc = "checked" -> 2
      [] OTHER -> 3

Finished(me, outcome) == [me EXCEPT !.pc = "done", !.response = outcome]

\* The body is validated and line 94 builds the table row.
create_receive(me, payload, now) ==
    LET product == ProductCreate(payload)
        got == [me EXCEPT !.payload = payload]
    IN  IF product.errors # <<>>
        THEN Finished(got, RequestInvalid(product.errors))
        ELSE
        LET db_product == Product_model_validate(product.values, now)
        IN  IF db_product.raised
            THEN Finished(got, Unhandled(<<[loc |-> "Product",
                                            type |-> "value_error"]>>))
            ELSE [got EXCEPT !.pc = "validated",
                             !.db_product = Val(db_product.value)]

\* The uniqueness query of lines 97-105.
create_check(me, st) ==
    IF ExistsNumber(st, me.db_product.v["product_number"])
    THEN Finished(me, Conflict(me.db_product.v["product_number"]))
    ELSE [me EXCEPT !.pc = "checked"]

\* add, commit, refresh and the response of lines 108-115.
create_commit(me, st, nid) ==
    IF ~CommitAccepts(me.db_product.v)
    THEN [storage |-> st, nextId |-> nid,
          me |-> Finished(me, Unhandled(<<[loc |-> "commit",
                                           type |-> "integrity_error"]>>))]
    ELSE [storage |-> (nid :> me.db_product.v) @@ st,
          nextId |-> nid + 1,
          me |-> Finished(me, ReadOutcome("created", nid, me.db_product.v))]

\* The next step of request r, which arrives with `payload`.
create_step(r, payload) ==
    LET me == inflight[r]
        written == create_commit(me, storage, nextId)
    IN  /\ me.pc # "done"
        /\ \A o \in Requests : Phase(inflight[o].pc) >= Phase(me.pc)
        /\ clock' = Now
        /\ inflight' =
              [inflight EXCEPT ![r] =
                  CASE me.pc = "idle" -> create_receive(me, payload, Now)
                    [] me.pc = "validated" -> create_check(me, storage)
                    [] OTHER -> written.me]
        /\ storage' = IF me.pc = "checked" THEN written.storage ELSE storage
        /\ nextId' = IF me.pc = "checked" THEN written.nextId ELSE nextId
        /\ UNCHANGED <<request, response, before>>

RaceNext ==
    \E r \in Requests, payload \in SeqCreatePayloads :
       create_step(r, payload)

SpecRace == Init /\ [][RaceNext]_vars

\* One create request with a wide range of bodies.
CreateOnce ==
    /\ clock = 0
    /\ \E payload \in CreatePayloads : create_product(payload)

SpecCreate == Init /\ [][CreateOnce]_vars

\* One update request with a wide range of bodies.
UpdateOnce ==
    /\ clock = 0
    /\ \E product_id \in Ids, payload \in UpdatePayloads :
          update_product(product_id, payload)

SpecUpdate == Init /\ [][UpdateOnce]_vars

-----------------------------------------------------------------------------
(* Properties *)

Rows == DOMAIN storage

HasError(f) ==
    \E k \in 1..Len(response.errors) : response.errors[k].loc = f

\* The value a field of row `product_id` should have after the update in
\* `request`: the supplied one if present, else the one stored before.
Merged(f) ==
    IF request.payload[f] # Unset
    THEN request.payload[f]
    ELSE before[request.id.v][f]

UpdateOfStoredRow ==
    /\ request.op = "update"
    /\ request.id.v \in DOMAIN before

\* C1: no two products in storage have the same product_number.
C1_UniqueProductNumber ==
    \A i \in Rows, j \in Rows :
        i # j => storage[i].product_number # storage[j].product_number

\* C1 witness: an update renamed one of two stored products.
C1_Witness ==
    /\ UpdateOfStoredRow
    /\ response.status = "ok"
    /\ Cardinality(Rows) = 2
    /\ storage[request.id.v].product_number
         # before[request.id.v].product_number

\* C2: a create whose body validates and whose product_number is already
\* stored ends in a conflict naming that product_number, storage unchanged.
C2_CreateDuplicateConflicts ==
    ( /\ request.op = "create"
      /\ ProductCreate(request.payload).errors = <<>>
      /\ ExistsNumber(before, request.payload["product_number"]) )
    => /\ response.status = "conflict"
       /\ response.product_number = request.payload["product_number"]
       /\ storage = before

\* C3: every stored product has list_price > standard_cost (I1).
C3_ListPriceAboveCost ==
    \A i \in Rows : storage[i].list_price.v > storage[i].standard_cost.v

\* C4: every stored product has sell_end_date and discontinued_date, when
\* present, not earlier than sell_start_date (I2, I3).
C4_DatesOrdered ==
    \A i \in Rows :
        /\ storage[i].sell_end_date # Null
             => storage[i].sell_end_date.v >= storage[i].sell_start_date.v
        /\ storage[i].discontinued_date # Null
             => storage[i].discontinued_date.v >= storage[i].sell_start_date.v

\* A create body as C5 describes it: required fields present, strings within
\* their lengths, positive amounts, list_price > standard_cost, a UUID
\* rowguid, end and discontinued dates absent or not before the start.
WellFormedCreate(p) ==
    /\ \A f \in RequiredFields : IsVal(p[f])
    /\ IsVal(p["name"]) => Len(p["name"].v) \in 1..NameMaxLength
    /\ IsVal(p["product_number"])
          => Len(p["product_number"].v) \in 1..NumberMaxLength
    /\ IsVal(p["color"]) => Len(p["color"].v) \in 1..ColorMaxLength
    /\ \A f \in {"weight", "standard_cost", "list_price"} :
          IsVal(p[f]) => p[f].v > 0
    /\ p["list_price"].v > p["standard_cost"].v
    /\ p["rowguid"].v \in {GoodGuid, OtherGuid}
    /\ \A f \in {"sell_end_date", "discontinued_date"} :
          IsVal(p[f]) => p[f].v >= p["sell_start_date"].v

\* C5: a well-formed create body validates, and every field of the
\* validated record equals the corresponding input field.
C5_ValidCreateRoundTrips ==
    ( request.op = "create" /\ WellFormedCreate(request.payload) )
    => LET product == ProductCreate(request.payload)
       IN  /\ product.errors = <<>>
           /\ \A f \in PayloadFields :
                 product.values[f] = IF request.payload[f] = Unset
                                     THEN Null
                                     ELSE request.payload[f]

\* C6: a create body with list_price <= standard_cost is rejected with a
\* violation tagged list_price, and nothing is persisted.
C6_PriceNotAboveCostRejected ==
    ( /\ request.op = "create"
      /\ IsVal(request.payload["list_price"])
      /\ IsVal(request.payload["standard_cost"])
      /\ request.payload["list_price"].v
           <= request.payload["standard_cost"].v )
    => /\ response.status = "validation_error"
       /\ HasError("list_price")
       /\ storage = before

\* C6 witness: list_price equal to a positive standard_cost was rejected.
C6_Witness ==
    /\ request.op = "create"
    /\ request.payload["standard_cost"] = Val(1)
    /\ request.payload["list_price"] = Val(1)
    /\ response.status = "validation_error"
    /\ HasError("list_price")

CreateDateBefore(f) ==
    /\ request.op = "create"
    /\ IsVal(request.payload[f])
    /\ IsVal(request.payload["sell_start_date"])
    /\ request.payload[f].v < request.payload["sell_start_date"].v

\* C7: a create body with sell_end_date (discontinued_date) earlier than
\* sell_start_date is rejected with a violation tagged sell_end_date
\* (discontinued_date).
C7_DateBeforeStartRejected ==
    \A f \in {"sell_end_date", "discontinued_date"} :
        CreateDateBefore(f)
        => response.status = "validation_error" /\ HasError(f)

\* C7 witness: both dates of a create body preceded its sell_start_date.
C7_Witness ==
    /\ CreateDateBefore("sell_end_date")
    /\ CreateDateBefore("discontinued_date")
    /\ HasError("sell_end_date")
    /\ HasError("discontinued_date")

\* C8: an update of a stored product whose merged list_price is not above
\* its merged standard_cost is rejected with a violation tagged list_price
\* and leaves storage unchanged.
C8_UpdateChecksMergedPrice ==
    ( /\ UpdateOfStoredRow
      /\ IsVal(Merged("list_price"))
      /\ IsVal(Merged("standard_cost"))
      /\ Merged("list_price").v <= Merged("standard_cost").v )
    => /\ response.status = "validation_error"
       /\ HasError("list_price")
       /\ storage = before

\* C9: an update of a stored product whose merged sell_end_date or
\* discontinued_date is present and earlier than the merged sell_start_date
\* is rejected with a validation error and leaves storage unchanged.
C9_UpdateChecksMergedDates ==
    \A f \in {"sell_end_date", "discontinued_date"} :
        ( /\ UpdateOfStoredRow
          /\ IsVal(Merged(f))
          /\ IsVal(Merged("sell_start_date"))
          /\ Merged(f).v < Merged("sell_start_date").v )
        => /\ response.status = "validation_error"
           /\ storage = before

\* C10: a successful update sets exactly the supplied fields and
\* modified_date in the row it names and leaves every other row alone; an
\* update with an empty body of a stored product succeeds.
C10_UpdateFrame ==
    /\ ( request.op = "update" /\ response.status = "ok" )
       => /\ request.id.v \in DOMAIN before
          /\ DOMAIN storage = DOMAIN before
          /\ \A i \in Rows \ {request.id.v} : storage[i] = before[i]
          /\ \A f \in PayloadFields :
                storage[request.id.v][f] = Merged(f)
          /\ storage[request.id.v].modified_date = Val(clock)
    /\ ( UpdateOfStoredRow /\ request.payload = EmptyPayload )
       => response.status = "ok"

\* The response reports the requested id as not found.
NotFoundOutcome ==
    /\ response.status = "not_found"
    /\ response.id = request.id

UpdateOfAbsentRow ==
    /\ request.op = "update"
    /\ request.id.v \notin DOMAIN before

BodyValidates == ProductUpdate(request.payload).errors = <<>>

\* C11 (as claimed): an update of an id that is not stored ends in not-found
\* carrying the id for every body, storage unchanged.
C11_NotFoundForEveryBody ==
    UpdateOfAbsentRow
    => NotFoundOutcome /\ storage = before

\* C11: an update of an id that is not stored ends in not-found carrying the
\* id for every body that validates, also when its product_number is in use
\* (the existence check precedes the conflict check); a body that does not
\* validate is rejected first; storage is unchanged either way.
C11_NotFoundForValidBody ==
    UpdateOfAbsentRow
    => /\ storage = before
       /\ BodyValidates => NotFoundOutcome
       /\ ~BodyValidates
            => response.status = "validation_error" /\ response.errors # <<>>

\* C11 witness: an update of an absent id whose body names a product_number
\* in use ended in not-found.
C11_Witness ==
    /\ UpdateOfAbsentRow
    /\ ExistsNumber(before, request.payload["product_number"])
    /\ NotFoundOutcome

\* C12: get ends in not-found carrying the id exactly when the id is not
\* stored, and otherwise returns the stored product; storage is unchanged.
C12_GetReturnsStoredProduct ==
    request.op = "get"
    => /\ storage = before
       /\ IF request.id.v \notin DOMAIN storage
          THEN NotFoundOutcome
          ELSE /\ response.status = "ok"
               /\ response.body # Null
               /\ response.body.v["product_id"] = request.id
               /\ \A f \in PayloadFields \cup {"modified_date"} :
                     response.body.v[f] = storage[request.id.v][f]

\* The body of an update of a stored row names a product_number that is not
\* the row's own and that another stored row has.
UpdateCollides ==
    /\ UpdateOfStoredRow
    /\ IsVal(request.payload["product_number"])
    /\ request.payload["product_number"]
         # before[request.id.v].product_number
    /\ \E j \in DOMAIN before \ {request.id.v} :
          before[j].product_number = request.payload["product_number"]

ConflictOutcome ==
    /\ response.status = "conflict"
    /\ response.product_number = request.payload["product_number"]
    /\ storage = before

\* C13 (as claimed): an update of a stored product ends in a conflict naming
\* the product_number, storage unchanged, exactly when its body collides.
C13_ConflictExactlyOnCollision ==
    UpdateOfStoredRow
    => /\ UpdateCollides <=> response.status = "conflict"
       /\ response.status = "conflict" => ConflictOutcome

\* C13: an update of a stored product with a body that validates ends in a
\* conflict naming the product_number, storage unchanged, exactly when its
\* body collides; a body that does not validate ends in a validation error,
\* colliding or not; the row's own number never gives a conflict.
C13_ConflictOnCollisionOfValidBody ==
    UpdateOfStoredRow
    => /\ BodyValidates => ( UpdateCollides <=> response.status = "conflict" )
       /\ ~BodyValidates => response.status = "validation_error"
       /\ response.status = "conflict" => ConflictOutcome

\* C13 witness: a rename to another row's product_number ended in conflict.
C13_Witness == UpdateCollides /\ ConflictOutcome

\* The id of the request was stored once and is stored no more: identifiers
\* below nextId have all been assigned.
RequestOfDeletedRow ==
    /\ request.id # Null
    /\ request.id.v < nextId
    /\ request.id.v \notin DOMAIN before

DeleteEffect ==
    request.op = "delete"
    => IF request.id.v \notin DOMAIN before
       THEN NotFoundOutcome /\ storage = before
       ELSE /\ response.status = "deleted"
            /\ response.id = request.id
            /\ DOMAIN storage = DOMAIN before \ {request.id.v}
            /\ \A i \in DOMAIN storage : storage[i] = before[i]

\* C14 (as claimed): delete of an absent id is not-found and changes
\* nothing; delete of a stored id removes that row only and confirms; any
\* later get, update or delete of that id is not-found.
C14_DeleteThenNotFound ==
    /\ DeleteEffect
    /\ ( request.op \in {"get", "update", "delete"} /\ RequestOfDeletedRow )
       => NotFoundOutcome

\* C14: as claimed, except that a later update of the deleted id is
\* not-found only when its body validates, and a validation error otherwise.
C14_DeleteThenNotFoundForValidBody ==
    /\ DeleteEffect
    /\ ( request.op \in {"get", "delete"} /\ RequestOfDeletedRow )
       => NotFoundOutcome
    /\ ( request.op = "update" /\ RequestOfDeletedRow )
       => IF BodyValidates
          THEN NotFoundOutcome
          ELSE response.status = "validation_error"

\* C14 witness: a get of a row that an earlier delete removed was not-found.
C14_Witness ==
    /\ request.op = "get"
    /\ RequestOfDeletedRow
    /\ NotFoundOutcome

FailedStatuses ==
    { "not_found", "conflict", "validation_error", "internal_error" }

\* C15: a successful create or update leaves the row with modified_date
\* equal to the time of the call, and a failed call leaves every
\* modified_date as it was.
C15_ModifiedDateOfLastSuccess ==
    /\ ( request.op = "update" /\ response.status = "ok" )
       => storage[request.id.v].modified_date = Val(clock)
    /\ ( request.op = "create" /\ response.status = "created" )
       => storage[response.id.v].modified_date = Val(clock)
    /\ response.status \in FailedStatuses
       => \A i \in DOMAIN storage \cap DOMAIN before :
             storage[i].modified_date = before[i].modified_date

\* The rule a field must satisfy by itself is broken: a required field is
\* missing or null, a length or sign constraint fails, or rowguid does not
\* parse.
BreaksFieldRule(p, f) ==
    \/ f \in RequiredFields /\ ~IsVal(p[f])
    \/ IsVal(p[f]) /\ ~FieldConstraintOk(f, p[f].v)
    \/ f = "rowguid" /\ IsVal(p[f]) /\ ~ParsesAsUUID(p[f].v)

CrossFields == { "list_price", "sell_end_date", "discontinued_date" }

Sibling(f) == IF f = "list_price" THEN "standard_cost" ELSE "sell_start_date"

\* I1 (list_price), I2 (sell_end_date) or I3 (discontinued_date) is broken
\* by the values the payload supplies.
BreaksCrossRule(p, f) ==
    /\ f \in CrossFields
    /\ IsVal(p[f])
    /\ IsVal(p[Sibling(f)])
    /\ IF f = "list_price" THEN p[f].v <= p[Sibling(f)].v
                           ELSE p[f].v < p[Sibling(f)].v

RulesBroken(p, f) ==
    (IF BreaksFieldRule(p, f) THEN 1 ELSE 0)
    + (IF BreaksCrossRule(p, f) THEN 1 ELSE 0)

\* The field is reported: its own rule or its cross-field rule is broken.
FieldFails(p, f) == BreaksFieldRule(p, f) \/ BreaksCrossRule(p, f)

\* The error reported on a cross field is the cross-field one only when the
\* field's own rule holds.
CrossErrorOnlyIfFieldRuleHolds ==
    \A k \in 1..Len(response.errors) :
       response.errors[k].loc \in CrossFields
       => ( response.errors[k].type = "value_error"
              <=> ~BreaksFieldRule(request.payload, response.errors[k].loc) )

ErrorsOn(f) ==
    Cardinality({ k \in 1..Len(response.errors) : response.errors[k].loc = f })

FieldIndex(f) == CHOOSE i \in 1..Len(FieldOrder) : FieldOrder[i] = f

ErrorsInDeclarationOrder ==
    \A j, k \in 1..Len(response.errors) :
       j < k => FieldIndex(response.errors[j].loc)
                  <= FieldIndex(response.errors[k].loc)

\* C17 (as claimed): a create is rejected with a validation error exactly
\* when its payload breaks a rule, and the errors hold one violation for
\* each rule broken, field rules and I1-I3 alike, in declaration order.
C17_OneErrorPerBrokenRule ==
    request.op = "create"
    => /\ response.status = "validation_error"
            <=> \E f \in PayloadFields : RulesBroken(request.payload, f) > 0
       /\ response.status = "validation_error"
            => /\ \A f \in PayloadFields :
                     ErrorsOn(f) = RulesBroken(request.payload, f)
               /\ ErrorsInDeclarationOrder

\* C17: a create is rejected with a validation error exactly when some
\* field fails, and the errors hold exactly one violation for each failing
\* field, in declaration order; a field that breaks both its own rule and
\* its cross-field rule is reported for its own rule only.
C17_OneErrorPerFailingField ==
    request.op = "create"
    => /\ response.status = "validation_error"
            <=> \E f \in PayloadFields : FieldFails(request.payload, f)
       /\ response.status = "validation_error"
            => /\ \A f \in PayloadFields :
                     ErrorsOn(f) = IF FieldFails(request.payload, f)
                                   THEN 1 ELSE 0
               /\ ErrorsInDeclarationOrder
               /\ CrossErrorOnlyIfFieldRuleHolds

\* C17 witness: a create was rejected with errors on two fields, one of
\* which also broke its cross-field rule.
C17_Witness ==
    /\ request.op = "create"
    /\ response.status = "validation_error"
    /\ Len(response.errors) >= 2
    /\ \E f \in CrossFields : RulesBroken(request.payload, f) = 2

SuppliesBadRowguid ==
    /\ request.op \in {"create", "update"}
    /\ IsVal(request.payload["rowguid"])
    /\ ~ParsesAsUUID(request.payload["rowguid"].v)

\* C18: a create or update whose payload supplies a rowguid that does not
\* parse as a UUID is rejected with a validation error on rowguid and
\* changes nothing, and every stored rowguid parses as a UUID.
C18_RowguidParses ==
    /\ SuppliesBadRowguid
       => /\ response.status = "validation_error"
          /\ HasError("rowguid")
          /\ storage = before
    /\ \A i \in DOMAIN storage :
          /\ IsVal(storage[i].rowguid)
          /\ ParsesAsUUID(storage[i].rowguid.v)

\* C18 witness: an update of a stored row that supplies a rowguid that does
\* not parse was rejected on rowguid.
C18_Witness ==
    /\ UpdateOfStoredRow
    /\ SuppliesBadRowguid
    /\ response.status = "validation_error"
    /\ HasError("rowguid")

NullsRequiredField ==
    /\ UpdateOfStoredRow
    /\ \E f \in RequiredFields : request.payload[f] = Null

\* C19: no stored row has a required field null, and an update that
\* supplies null for a required field does not succeed and changes nothing.
C19_RequiredFieldsNeverNull ==
    /\ \A i \in DOMAIN storage :
          \A f \in RequiredFields : storage[i][f] # Null
    /\ NullsRequiredField
       => response.status # "ok" /\ storage = before

\* C19 witness: an update that validates and supplies null for a required
\* field of a stored row reached the commit and was refused there.
C19_Witness ==
    /\ NullsRequiredField
    /\ BodyValidates
    /\ response.status = "internal_error"
    /\ storage = before

\* Both concurrent requests have ended, both bodies are well formed and
\* name the same product_number, and no row but theirs has that number.
RaceOfEqualNumbers ==
    /\ \A r \in Requests :
          /\ inflight[r].pc = "done"
          /\ WellFormedCreate(inflight[r].payload)
    /\ inflight[1].payload["product_number"]
         = inflight[2].payload["product_number"]
    /\ \A i \in DOMAIN storage :
          storage[i].product_number = inflight[1].payload["product_number"]
          => \E r \in Requests : inflight[r].response.id = Val(i)

\* C16: when two concurrent creates of the same product_number both run the
\* uniqueness query before either commits, both succeed and storage holds
\* two products with that product_number.
C16_RaceStoresDuplicate ==
    RaceOfEqualNumbers
    => /\ \A r \in Requests : inflight[r].response.status = "created"
       /\ Cardinality({ i \in DOMAIN storage :
              storage[i].product_number
                = inflight[1].payload["product_number"] }) = 2

====
